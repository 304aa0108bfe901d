----------------------------- MODULE PageStatus -----------------------------
(***************************************************************************)
(* The allocation status of a guest page, as the status byte of            *)
(* source/host/minibox_internal.h, and the protections that callers name   *)
(* (mb_prot).                                                              *)
(***************************************************************************)
EXTENDS Integers

MB_PROT == {"NONE", "R", "RW", "RX", "RWX", "RWSTACK"}

MB_ST_FREE    == 0
MB_ST_NONE    == 32
MB_ST_R       == 1
MB_ST_RW      == 3
MB_ST_RX      == 5
MB_ST_RWX     == 7
MB_ST_RWSTACK == 19

MB_ST == {MB_ST_FREE, MB_ST_NONE, MB_ST_R, MB_ST_RW, MB_ST_RX, MB_ST_RWX,
          MB_ST_RWSTACK}

status_prot(s) ==
  CASE s = MB_ST_R       -> "R"
    [] s = MB_ST_RW      -> "RW"
    [] s = MB_ST_RX      -> "RX"
    [] s = MB_ST_RWX     -> "RWX"
    [] s = MB_ST_RWSTACK -> "RWSTACK"
    [] OTHER             -> "NONE"

(* Faulty variant: the write bit alone for a writable page.                *)
prot_status_Bits(prot) ==
  CASE prot = "R" -> 1 [] prot = "RW" -> 2 [] OTHER -> MB_ST_NONE

prot_status(prot) ==
  CASE prot = "R"       -> MB_ST_R
    [] prot = "RW"      -> MB_ST_RW
    [] prot = "RX"      -> MB_ST_RX
    [] prot = "RWX"     -> MB_ST_RWX
    [] prot = "RWSTACK" -> MB_ST_RWSTACK
    [] OTHER            -> MB_ST_NONE

Writable(s) == s \in {MB_ST_RW, MB_ST_RWX, MB_ST_RWSTACK}

(* The statuses under which the guest may read the page.                   *)
Readable(s) == s \notin {MB_ST_FREE, MB_ST_NONE}

=============================================================================
