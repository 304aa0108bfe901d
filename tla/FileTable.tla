----------------------------- MODULE FileTable ------------------------------
(***************************************************************************)
(* What the virtual file system promises (docs/MACHINE-SPEC.md section 8): *)
(* named files, and a table of descriptors each of which has a file of its *)
(* own and a position in it.  A closed file has no position.               *)
(***************************************************************************)
EXTENDS Integers, Sequences, FiniteSetsExt, Functions

CONSTANTS
  Names,      \* names that can be mounted
  Content     \* what files can hold

VARIABLES
  files,      \* for each mounted name: the content, whether it can be read or written
  table       \* for each open descriptor: the name and the position

vars == <<files, table>>

IsOpen(name) == \E fd \in DOMAIN table : table[fd].name = name

(* The lowest descriptor that is not in the table, as a set.               *)
Lowest ==
  {fd \in {0} \cup {n + 1 : n \in DOMAIN table} :
     fd \notin DOMAIN table /\ \A n \in 0 .. fd - 1 : n \in DOMAIN table}

(* f, and v at x.                                                          *)
With(f, x, v) == [y \in DOMAIN f \cup {x} |-> IF y = x THEN v ELSE f[y]]

Init ==
  /\ files = [n \in {"/dev/stdin", "/dev/stdout", "/dev/stderr"} |->
                [data |-> <<>>, regular |-> FALSE,
                 read |-> n = "/dev/stdin", write |-> n # "/dev/stdin"]]
  /\ table = [fd \in 0 .. 2 |->
                [name |-> IF fd = 0 THEN "/dev/stdin" ELSE IF fd = 1 THEN "/dev/stdout" ELSE "/dev/stderr",
                 pos |-> 0]]

Mount(name) ==
  /\ name \notin DOMAIN files
  /\ \E d \in Content, w \in BOOLEAN :
       files' = With(files, name, [data |-> d, regular |-> TRUE, read |-> TRUE, write |-> w])
  /\ UNCHANGED table

Unmount(name) ==
  /\ files[name].regular /\ ~IsOpen(name)
  /\ files' = Restrict(files, DOMAIN files \ {name})
  /\ UNCHANGED table

Open(name) ==
  /\ ~IsOpen(name)
  /\ \E fd \in Lowest : table' = With(table, fd, [name |-> name, pos |-> 0])
  /\ UNCHANGED files

Close(fd) ==
  /\ table' = Restrict(table, DOMAIN table \ {fd})
  /\ UNCHANGED files

(* A read or a seek.                                                       *)
Move(fd) ==
  /\ \E p \in 0 .. Len(files[table[fd].name].data) : table' = [table EXCEPT ![fd].pos = p]
  /\ UNCHANGED files

(* A write replaces the bytes from the position on, and extends the file   *)
(* if there are more of them.                                              *)
Write(fd) ==
  LET f == files[table[fd].name]
      p == table[fd].pos
  IN
  /\ f.regular /\ f.write
  /\ \E d \in Content :
       /\ files' = [files EXCEPT ![table[fd].name].data =
            SubSeq(@, 1, p) \o d \o SubSeq(@, p + Len(d) + 1, Len(@))]
       /\ table' = [table EXCEPT ![fd].pos = p + Len(d)]

(* The content is cut, or extended by whatever bytes.  A descriptor that   *)
(* would be behind the new end is moved to it.                             *)
Truncate(name) ==
  /\ files[name].regular /\ files[name].write
  /\ \E d \in Content :
       /\ \A i \in DOMAIN d \cap DOMAIN files[name].data : d[i] = files[name].data[i]
       /\ files' = [files EXCEPT ![name].data = d]
       /\ table' = [fd \in DOMAIN table |->
            IF table[fd].name = name THEN [table[fd] EXCEPT !.pos = Min({@, Len(d)})] ELSE table[fd]]

Next ==
  \/ \E name \in Names : Mount(name)
  \/ \E name \in DOMAIN files : Unmount(name) \/ Open(name) \/ Truncate(name)
  \/ \E fd \in DOMAIN table : Close(fd) \/ Move(fd) \/ Write(fd)

Spec == Init /\ [][Next]_vars

=============================================================================
