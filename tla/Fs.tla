--------------------------------- MODULE Fs ---------------------------------
(***************************************************************************)
(* The virtual file system (source/host/fs.c): a list of named files in    *)
(* memory, each with room for one descriptor and one position.  Calls that *)
(* fail change nothing.  What a read returns is ReadBytes; output to the   *)
(* host's console and the fields of stat are left out.                     *)
(*                                                                         *)
(* The allocated size of a file (cap) always equals its length, and is not *)
(* kept apart here.  The bytes realloc adds are Garbage.  readv and writev *)
(* are sequences of reads and of writes on one descriptor.                 *)
(***************************************************************************)
EXTENDS Integers, Sequences, FiniteSets, FiniteSetsExt

CONSTANTS
  Names,      \* names of the files that the host mounts
  Bytes,      \* what is written to files
  Garbage,    \* a byte of memory that was never written
  Fds,        \* the descriptors that guests pass
  MaxLen      \* bound on the length of files and of requests

BAD_FD == -1

ASSUME FsAssumption ==
  /\ Names \cap {"/dev/stdin", "/dev/stdout", "/dev/stderr"} = {}
  /\ Garbage \notin Bytes
  /\ Fds \subseteq Int
  /\ MaxLen \in Nat

VARIABLE files   \* the list of mounted_file records

(* Sequences of bytes that are at most MaxLen long.                        *)
UpToMaxLen(S) == UNION {[1 .. n -> S] : n \in 0 .. MaxLen}
Buffers == UpToMaxLen(Bytes)

File(name, fd, kind, data, writable) ==
  [name |-> name, fd |-> fd, kind |-> kind, data |-> data, pos |-> 0, writable |-> writable]

Init ==
  files = <<File("/dev/stdin", 0, "EMPTY", <<>>, FALSE),
            File("/dev/stdout", 1, "SYSOUT", <<>>, FALSE),
            File("/dev/stderr", 2, "SYSOUT", <<>>, FALSE)>>

(* The index of the first file that matches, as a set: there may be none.  *)
First(I) == {i \in I : \A j \in I : i <= j}
by_name(name) == First({i \in DOMAIN files : files[i].name = name})
by_fd(fd) == First({i \in DOMAIN files : files[i].fd = fd})

-----------------------------------------------------------------------------
(* The host mounts and unmounts files.                                     *)

Mount(name, data, writable) ==
  /\ by_name(name) = {}
  /\ files' = Append(files, File(name, BAD_FD, "REGULAR", data, writable))

(* The list without its i-th file: memmove moves the others up.            *)
Without(i) == [j \in 1 .. Len(files) - 1 |-> files[IF j < i THEN j ELSE j + 1]]

Unmount(name) ==
  \E i \in by_name(name) :
    /\ files[i].kind = "REGULAR"
    /\ files[i].fd = BAD_FD
    /\ files' = Without(i)

-----------------------------------------------------------------------------
(* The guest's calls.                                                      *)

(* Faulty variant: the number of open files, which may be in use.          *)
NewFd_Count == Cardinality({i \in DOMAIN files : files[i].fd # BAD_FD})

(* The lowest descriptor not in use.                                       *)
NewFd == Min({fd \in 0 .. Len(files) : by_fd(fd) = {}})

can_read(f) == f.kind # "SYSOUT"
can_write(f) == f.kind = "SYSOUT" \/ (f.kind = "REGULAR" /\ f.writable)

Open(name, mode) ==
  \E i \in by_name(name) :
    /\ files[i].fd = BAD_FD
    /\ mode \in {"O_RDONLY", "O_RDWR"} => can_read(files[i])
    /\ mode \in {"O_WRONLY", "O_RDWR"} => can_write(files[i])
    /\ files' = [files EXCEPT ![i].fd = NewFd]

(* Faulty variant: the position stays where it was.                        *)
Close_KeepsPos(fd) ==
  \E i \in by_fd(fd) : files' = [files EXCEPT ![i].fd = BAD_FD]

Close(fd) ==
  \E i \in by_fd(fd) : files' = [files EXCEPT ![i].fd = BAD_FD, ![i].pos = 0]

ReadBytes(f, n) == SubSeq(f.data, f.pos + 1, Min({f.pos + n, Len(f.data)}))

Read(fd, n) ==
  \E i \in by_fd(fd) :
    /\ files[i].kind = "REGULAR"
    /\ files' = [files EXCEPT ![i].pos = @ + Len(ReadBytes(files[i], n))]

(* Faulty variant: the file ends where the write ends.                     *)
Overwritten_Cut(data, pos, buf) == SubSeq(data, 1, pos) \o buf

(* buf from position pos on, with what lies before and after it.           *)
Overwritten(data, pos, buf) ==
  [i \in 1 .. Max({Len(data), pos + Len(buf)}) |->
     IF i > pos /\ i <= pos + Len(buf) THEN buf[i - pos]
     ELSE IF i <= Len(data) THEN data[i] ELSE Garbage]

Write(fd, buf) ==
  \E i \in by_fd(fd) :
    /\ files[i].kind = "REGULAR" /\ files[i].writable
    /\ files[i].pos + Len(buf) <= MaxLen
    /\ files' = [files EXCEPT ![i].data = Overwritten(@, files[i].pos, buf),
                              ![i].pos = @ + Len(buf)]

(* Faulty variant: a position before the start is accepted.                *)
SeekTarget_Unsigned(f, offset, whence) ==
  LET from == [SEEK_SET |-> 0, SEEK_CUR |-> f.pos, SEEK_END |-> Len(f.data)][whence]
  IN  {p \in {from + offset} : p <= Len(f.data)}

(* The position asked for, as a set: empty if it is outside the file.      *)
SeekTarget(f, offset, whence) ==
  LET from == [SEEK_SET |-> 0, SEEK_CUR |-> f.pos, SEEK_END |-> Len(f.data)][whence]
  IN  {p \in {from + offset} : p >= 0 /\ p <= Len(f.data)}

Seek(fd, offset, whence) ==
  \E i \in by_fd(fd) :
    /\ files[i].kind = "REGULAR"
    /\ \E p \in SeekTarget(files[i], offset, whence) : files' = [files EXCEPT ![i].pos = p]

(* Faulty variant: the position may be left behind the end.                *)
Truncated_NoClamp(f, size) ==
  [f EXCEPT !.data = [i \in 1 .. size |-> IF i <= Len(f.data) THEN f.data[i] ELSE Garbage]]

Truncated(f, size) ==
  [f EXCEPT !.data = [i \in 1 .. size |-> IF i <= Len(f.data) THEN f.data[i] ELSE Garbage],
            !.pos = Min({@, size})]

TruncateName(name, size) ==
  \E i \in by_name(name) :
    /\ files[i].kind = "REGULAR" /\ files[i].writable
    /\ files' = [files EXCEPT ![i] = Truncated(@, size)]

TruncateFd(fd, size) == \E i \in by_fd(fd) : TruncateName(files[i].name, size)

-----------------------------------------------------------------------------

HostCalls ==
  \/ \E name \in Names, data \in Buffers, writable \in BOOLEAN : Mount(name, data, writable)
  \/ \E i \in DOMAIN files : Unmount(files[i].name)

GuestCalls ==
  \/ \E i \in DOMAIN files, mode \in {"O_RDONLY", "O_WRONLY", "O_RDWR"} : Open(files[i].name, mode)
  \/ \E fd \in Fds : Close(fd)
  \/ \E fd \in Fds, n \in 0 .. MaxLen : Read(fd, n)
  \/ \E fd \in Fds, buf \in Buffers : Write(fd, buf)
  \/ \E fd \in Fds, offset \in -MaxLen .. MaxLen,
        whence \in {"SEEK_SET", "SEEK_CUR", "SEEK_END"} : Seek(fd, offset, whence)
  \/ \E i \in DOMAIN files, size \in 0 .. MaxLen : TruncateName(files[i].name, size)
  \/ \E fd \in Fds, size \in 0 .. MaxLen : TruncateFd(fd, size)

Next == HostCalls \/ GuestCalls

Spec == Init /\ [][Next]_files

-----------------------------------------------------------------------------
(* Properties.                                                             *)

Content == UpToMaxLen(Bytes \cup {Garbage})

(* The type of the state.                                                  *)
TypeOK ==
  \A i \in DOMAIN files :
    /\ files[i].fd \in {BAD_FD} \cup Nat
    /\ files[i].kind \in {"EMPTY", "SYSOUT", "REGULAR"}
    /\ files[i].data \in Content
    /\ files[i].pos \in Nat
    /\ files[i].writable \in BOOLEAN

(* A position is never behind the end of its file, closed files included,  *)
(* so that the unsigned difference len - pos of mb_fs_read cannot wrap and *)
(* mb_fs_write leaves no gap, whatever is cut, moved and passed.           *)
PositionsInFiles == \A i \in DOMAIN files : files[i].pos <= Len(files[i].data)

(* No two files have one name, and no two open files have one descriptor,  *)
(* so that the first match of by_name and by_fd is the only one, whatever  *)
(* is mounted, unmounted, opened and closed in between.                    *)
MatchesAreUnique ==
  \A i, j \in DOMAIN files :
    i # j => /\ files[i].name # files[j].name
             /\ files[i].fd = BAD_FD \/ files[i].fd # files[j].fd

(* A file is at its start when it is opened (MACHINE-SPEC section 8,       *)
(* "close resets seek to 0").                                              *)
OpensAtStart == \A i \in DOMAIN files : files[i].fd = BAD_FD => files[i].pos = 0

(* What a guest reads from a file has been mounted or written before       *)
(* (README, "a deterministic syscall surface").                            *)
ReadsAreDetermined ==
  \A i \in DOMAIN files :
    files[i].fd # BAD_FD =>
      \A k \in DOMAIN ReadBytes(files[i], MaxLen) : ReadBytes(files[i], MaxLen)[k] # Garbage

(* A truncate makes a file longer.                                         *)
Extends ==
  \E i \in DOMAIN files, size \in 0 .. MaxLen :
    size > Len(files[i].data) /\ TruncateName(files[i].name, size)

=============================================================================
