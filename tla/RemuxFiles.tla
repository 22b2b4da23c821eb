----------------------------- MODULE RemuxFiles -----------------------------
(***************************************************************************)
(* RemuxFiles and installRemuxOutput of pkg/media/remux.go: the container  *)
(* is written to a temporary file beside the output and takes the output's *)
(* place by a rename, or where that fails by moving the old file away.     *)
(*                                                                         *)
(* Three paths of one directory matter.  Every system call may fail; the   *)
(* process may stop between any two of them, which is why what must hold   *)
(* of the disk is stated of every state.                                   *)
(* Operators named <definition>_<bug> are mutants of the one that follows. *)
(***************************************************************************)
EXTENDS Remux

VARIABLES
    step,        \* of RemuxFiles
    failed,      \* an error will be, or was, returned
    reported,    \* that error says the old file was left at the backup path
    disk,        \* what is at each path
    existed      \* what was at the output path

fileVars == <<step, failed, reported, disk, existed>>
filesVars == <<remuxVars, fileVars>>

Paths == {"out", "temp", "backup"}

FilesTypeOK ==
    /\ TypeOK
    /\ step \in {"open", "temp", "chmod", "remux", "close", "lstat", "rename", "stat", "reserve",
                 "unlink", "setAside", "replace", "restore", "discard", "cleanup", "returned"}
    /\ failed \in BOOLEAN /\ reported \in BOOLEAN
    /\ disk \in [Paths -> {"nothing", "old", "new", "directory", "placeholder"}]
    /\ existed \in {"nothing", "old", "directory"}

FilesInit ==
    /\ Init
    /\ step = "open" /\ failed = FALSE /\ reported = FALSE
    /\ existed \in {"nothing", "old", "directory"}
    /\ disk = [p \in Paths |-> IF p = "out" THEN existed ELSE "nothing"]

To(label) == step' = label /\ UNCHANGED <<failed, reported>>
Fail(label) == step' = label /\ failed' = TRUE /\ UNCHANGED reported
OnDisk(contents) == disk' = contents /\ UNCHANGED existed
NothingMoved == UNCHANGED <<disk, existed>>

Rename(from, to) == OnDisk([disk EXCEPT ![to] = disk[from], ![from] = "nothing"])

(* The arguments are refused, an input does not open after some that did   *)
(* and are closed again, or all inputs are open.                           *)
OpenFiles ==
    /\ step = "open"
    /\ \/ To("temp") /\ UNCHANGED remuxVars
       \/ /\ Fail("returned")
          /\ \E n \in 0 .. NInputs - 1 : closes' = [i \in Inputs |-> IF i <= n THEN 1 ELSE 0]
          /\ UNCHANGED <<readVars, muxVars, opened, released, pc, err>>
    /\ NothingMoved

CloseSources ==
    /\ closes' = [i \in Inputs |-> 1]
    /\ UNCHANGED <<readVars, muxVars, opened, released, pc, err>>

CreateTemp ==
    /\ step = "temp"
    /\ \/ To("chmod") /\ OnDisk([disk EXCEPT !["temp"] = "new"]) /\ UNCHANGED remuxVars
       \/ Fail("returned") /\ CloseSources /\ NothingMoved

Chmod ==
    /\ step = "chmod"
    /\ \/ To("remux") /\ UNCHANGED remuxVars
       \/ Fail("cleanup") /\ CloseSources
    /\ NothingMoved

RemuxStep == step = "remux" /\ Next /\ UNCHANGED fileVars

Remuxed ==
    /\ step = "remux" /\ pc = "returned"
    /\ IF err THEN Fail("cleanup") ELSE To("close")
    /\ NothingMoved /\ UNCHANGED remuxVars

CloseTemp ==
    /\ step = "close"
    /\ To("lstat") \/ Fail("cleanup")
    /\ NothingMoved /\ UNCHANGED remuxVars

(* installRemuxOutputWithRename: only a regular file may be replaced. *)
Lstat ==
    /\ step = "lstat"
    /\ (disk["out"] # "directory" /\ To("rename")) \/ Fail("cleanup")
    /\ NothingMoved /\ UNCHANGED remuxVars

RenameOver ==
    /\ step = "rename"
    /\ \/ Rename("temp", "out") /\ To("returned")
       \/ NothingMoved /\ To("stat")
    /\ UNCHANGED remuxVars

Stat ==
    /\ step = "stat"
    /\ (disk["out"] # "nothing" /\ To("reserve")) \/ Fail("cleanup")
    /\ NothingMoved /\ UNCHANGED remuxVars

(* The backup's name is reserved by a file, created and closed; a failing  *)
(* close removes it again.                                                 *)
Reserve ==
    /\ step = "reserve"
    /\ \/ To("unlink") /\ OnDisk([disk EXCEPT !["backup"] = "placeholder"])
       \/ Fail("cleanup") /\ NothingMoved
       \/ Fail("cleanup") /\ OnDisk([disk EXCEPT !["backup"] = "placeholder"])
    /\ UNCHANGED remuxVars

Unlink ==
    /\ step = "unlink"
    /\ \/ To("setAside") /\ OnDisk([disk EXCEPT !["backup"] = "nothing"])
       \/ Fail("cleanup") /\ NothingMoved
    /\ UNCHANGED remuxVars

SetAside_Removes ==
    /\ step = "setAside"
    /\ \/ OnDisk([disk EXCEPT !["out"] = "nothing"]) /\ To("replace")
       \/ NothingMoved /\ Fail("cleanup")
    /\ UNCHANGED remuxVars

SetAside ==
    /\ step = "setAside"
    /\ \/ Rename("out", "backup") /\ To("replace")
       \/ NothingMoved /\ Fail("cleanup")
    /\ UNCHANGED remuxVars

Replace ==
    /\ step = "replace"
    /\ \/ Rename("temp", "out") /\ To("discard")
       \/ NothingMoved /\ Fail("restore")
    /\ UNCHANGED remuxVars

Restore ==
    /\ step = "restore"
    /\ \/ Rename("backup", "out") /\ UNCHANGED reported
       \/ NothingMoved /\ reported' = TRUE
    /\ step' = "cleanup" /\ UNCHANGED failed
    /\ UNCHANGED remuxVars

(* What os.Remove of the backup says is what the installation says. *)
Discard ==
    /\ step = "discard"
    /\ \/ OnDisk([disk EXCEPT !["backup"] = "nothing"]) /\ To("returned")
       \/ NothingMoved /\ Fail("cleanup")
    /\ UNCHANGED remuxVars

(* The temporary file of a run that failed is removed if it can be. *)
Cleanup ==
    /\ step = "cleanup"
    /\ OnDisk([disk EXCEPT !["temp"] = "nothing"]) \/ NothingMoved
    /\ To("returned")
    /\ UNCHANGED remuxVars

FilesNext ==
    \/ OpenFiles \/ CreateTemp \/ Chmod \/ RemuxStep \/ Remuxed \/ CloseTemp
    \/ Lstat \/ RenameOver \/ Stat \/ Reserve \/ Unlink \/ SetAside \/ Replace
    \/ Restore \/ Discard \/ Cleanup

FilesSpec == FilesInit /\ [][FilesNext]_filesVars

-----------------------------------------------------------------------------
(* What is at the output path is what was there or the finished container  *)
(* of all that the inputs hold: no part of one is ever installed, although *)
(* a container is also closed when a read or a write has failed            *)
(* (remux.go:252-254, docs/ARCHITECTURE.md:266-268).                       *)
InstalledWhole ==
    disk["out"] = "new" =>
        /\ dst = "complete" /\ ~err
        /\ \A i \in Inputs : written[i] = Len(files[i])

(* Wherever the process stops, the old file is at one of the paths unless  *)
(* the new one has taken its place (remux.go:346-385).                     *)
Recoverable ==
    existed # "nothing" => disk["out"] = "new" \/ \E p \in Paths : disk[p] = existed
=============================================================================
