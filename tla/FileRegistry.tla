---------------------------- MODULE FileRegistry ----------------------------
(***************************************************************************)
(* What the file system calls promise, without inodes, sectors or locks   *)
(* (spec 3 and 4.2): a directory of names, each process's list of open     *)
(* files, and the set of files that exist.  A file exists from its         *)
(* creation until it has neither a name nor an open descriptor; removing  *)
(* a name that is open only unlinks it, and the last close ends the file. *)
(* open (name) gives a descriptor for the file the name denotes.  Each    *)
(* descriptor may deny writes to its file once and allow them again.      *)
(*                                                                         *)
(* InodeTable implements this specification; the refinement mapping is    *)
(* given there.                                                            *)
(***************************************************************************)
EXTENDS Naturals, SequencesExt

CONSTANTS
    Procs,   \* processes
    Names,   \* names in the directory
    Files,   \* file identities
    NoFile   \* the file of a name that is not in the directory

ASSUME NoFile \notin Files

VARIABLES
    names,   \* names[n]: the file n denotes, or NoFile
    handles, \* handles[p]: p's open files, oldest first, [file, denied]
    alive    \* the files that exist

regvars == <<names, handles, alive>>

\* The files a name denotes, or an open descriptor refers to, in the given
\* directory and descriptor lists.
Reachable(nm, hs) ==
    {nm[n] : n \in {x \in Names : nm[x] # NoFile}}
    \cup UNION {{hs[p][i].file : i \in DOMAIN hs[p]} : p \in Procs}

RegInit ==
    /\ names = [n \in Names |-> NoFile]
    /\ handles = [p \in Procs |-> << >>]
    /\ alive = {}

\* A new file f is created under the free name n.
Create(n, f) ==
    /\ names[n] = NoFile
    /\ f \notin alive
    /\ names' = [names EXCEPT ![n] = f]
    /\ alive' = alive \cup {f}
    /\ UNCHANGED handles

\* p opens the file n denotes.
Open(p, n) ==
    /\ names[n] # NoFile
    /\ handles' = [handles EXCEPT ![p] =
                      Append(@, [file |-> names[n], denied |-> FALSE])]
    /\ UNCHANGED <<names, alive>>

\* p's i-th open file denies, or allows again, writes to its file.
SetDenied(p, i, b) ==
    /\ handles[p][i].denied = ~b
    /\ handles' = [handles EXCEPT ![p][i].denied = b]
    /\ UNCHANGED <<names, alive>>

\* Ending p's open files hs: a file that loses its last reference is gone.
Drop(p, hs) ==
    /\ handles' = [handles EXCEPT ![p] = hs]
    /\ alive' = alive \cap Reachable(names, handles')
    /\ UNCHANGED names

\* n is unlinked; its file is gone unless it is open.
Unlink(n) ==
    /\ names[n] # NoFile
    /\ names' = [names EXCEPT ![n] = NoFile]
    /\ alive' = alive \cap Reachable(names', handles)
    /\ UNCHANGED handles

RegNext ==
    \/ \E n \in Names, f \in Files : Create(n, f)
    \/ \E p \in Procs, n \in Names : Open(p, n)
    \/ \E p \in Procs, b \in BOOLEAN :
          \E i \in DOMAIN handles[p] : SetDenied(p, i, b)
    \/ \E p \in Procs :
          \/ \E i \in DOMAIN handles[p] : Drop(p, RemoveAt(handles[p], i))
          \/ Drop(p, << >>)
    \/ \E n \in Names : Unlink(n)

RegSpec == RegInit /\ [][RegNext]_regvars

=============================================================================
