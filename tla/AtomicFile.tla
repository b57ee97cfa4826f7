---------------------------- MODULE AtomicFile -----------------------------
(***************************************************************************)
(* atomic_write_file() (src/src/util/atomic_file.cpp): stage, sync, rename,*)
(* sync the directory.  A file is what its name shows now (seen) and what  *)
(* a power cut may leave under the name (sure).                            *)
(***************************************************************************)
EXTENDS Naturals, SequencesExt

CONSTANTS NoFile, Torn, Squat   \* no name; an unsynced file; an empty directory

FileHolding(x) == [seen |-> x, sure |-> {x}]

\* A write of val to path ("save" or "pid") under way: its next step.
NoWrite == [step |-> "idle", path |-> "save", val |-> NoFile, synced |-> FALSE]
Begin(path, v) == [step |-> "stage", path |-> path, val |-> v, synced |-> FALSE]

\* The empty directory an old release left on the name goes first.
RemoveSquat(f) == IF f.seen = Squat THEN [seen |-> NoFile, sure |-> f.sure \cup {NoFile}] ELSE f

Renamed(f, w) == [seen |-> w.val,
                  sure |-> f.sure \cup {w.val} \cup (IF w.synced THEN {} ELSE {Torn})]
Unlinked(f) == [seen |-> NoFile, sure |-> f.sure \cup {NoFile}]

\* Mutant: the staging file is renamed before it is synced.
posix_write_unsynced(w, f) ==
  CASE w.step = "stage"   -> <<[w EXCEPT !.step = "rename"], RemoveSquat(f)>>
    [] w.step = "rename"  -> <<[w EXCEPT !.step = "dirsync"], Renamed(f, w)>>
    [] w.step = "dirsync" -> <<[w EXCEPT !.step = "done"], [f EXCEPT !.sure = {f.seen}]>>
    [] OTHER -> <<w, f>>

\* posix_write(), step by step: open and write the staging file, fsync and
\* close it, rename it, fsync the directory.
posix_write(w, f) ==
  CASE w.step = "stage"   -> <<[w EXCEPT !.step = "sync"], RemoveSquat(f)>>
    [] w.step = "sync"    -> <<[w EXCEPT !.step = "rename", !.synced = TRUE], f>>
    [] w.step = "rename"  -> <<[w EXCEPT !.step = IF w.path = "save" THEN "dirsync" ELSE "done"],
                               Renamed(f, w)>>
    [] w.step = "dirsync" -> <<[w EXCEPT !.step = "done"], [f EXCEPT !.sure = {f.seen}]>>
    [] OTHER -> <<w, f>>

\* A step that fails: the staging file is unlinked, the name untouched; a
\* failed sync of the directory is ignored.
WriteFails(w) == [w EXCEPT !.step = IF @ = "dirsync" THEN "done" ELSE "failed"]

Writing(w) == w.step \in {"stage", "sync", "rename", "dirsync"}
============================================================================
